---- MODULE Spec2Model ----
(***************************************************************************)
(* Model of the web-scraper request pipeline: the freemium gate            *)
(* (middleware/freemium.ts), the in-process usage map it owns, the         *)
(* payment middleware it hands denied requests to, and the /scrape handler *)
(* with its ERC-8004 feedback attestation (server.ts), and the session     *)
(* table of the MCP endpoints (mcp.ts).                                    *)
(*                                                                         *)
(* JavaScript values are tagged records [t, v]; strings are sequences of   *)
(* one-character strings so that toLowerCase() and trim() are computed.    *)
(***************************************************************************)
EXTENDS Integers, Sequences, FiniteSets, Bags

\* ---------------------------------------------------------------- bounds
\* requests accepted over the whole run (all process lifetimes together)
MaxReqs == 4
\* process restarts
MaxRestarts == 1
\* length of the header strings fed to identity resolution
MaxLen == 2

\* ------------------------------------------------------ program constants
FREE_TIER_LIMIT == 2

\* ------------------------------------------------------------- JS values
Undefined == [t |-> "undefined", v |-> <<>>]
Str(s) == [t |-> "string", v |-> s]
\* a header delivered as string[] (IncomingHttpHeaders: string | string[] | undefined)
ListValue == [t |-> "list", v |-> <<>>]

\* an optional property of an object: <<>> when unset, <<x>> when set to x
None == <<>>
Some(x) == <<x>>

Alphabet == {"a", "A", " "}
UNKNOWN == <<"u", "n", "k", "n", "o", "w", "n">>
IpAddr == <<"i">>
PeerAddr == <<"r">>

RECURSIVE StringsOfLen(_)
StringsOfLen(n) ==
  IF n = 0 THEN {<<>>}
  ELSE {Append(s, c) : s \in StringsOfLen(n - 1), c \in Alphabet}

StringsUpTo(n) == UNION {StringsOfLen(k) : k \in 0..n}

\* ------------------------------------------------- String.prototype parts
LowerChar(c) == IF c = "A" THEN "a" ELSE c

ToLowerCase(s) == [i \in 1..Len(s) |-> LowerChar(s[i])]

RECURSIVE TrimStart(_)
TrimStart(s) ==
  IF s # <<>> /\ Head(s) = " " THEN TrimStart(Tail(s)) ELSE s

RECURSIVE TrimEnd(_)
TrimEnd(s) ==
  IF s # <<>> /\ s[Len(s)] = " " THEN TrimEnd(SubSeq(s, 1, Len(s) - 1)) ELSE s

Trim(s) == TrimEnd(TrimStart(s))

\* ------------------------------------------------------- JS operators
\* a ?? b
Nullish(a, b) == IF a.t = "undefined" THEN b ELSE a

Truthy(a) == a.t = "list" \/ (a.t = "string" /\ a.v # <<>>)

\* a || b
OrElse(a, b) == IF Truthy(a) THEN a ELSE b

\* ------------------------------------------------------------- Map<K, V>
\* walletUsage is a function whose DOMAIN is the set of keys present
NewMapMutant == [k \in {Str(<<"a">>).v, IpAddr, UNKNOWN} |-> FREE_TIER_LIMIT]

NewMap == [k \in {} |-> 0]

MapHas(m, k) == k \in DOMAIN m

\* m.get(k) ?? 0
MapGetOrZero(m, k) == IF MapHas(m, k) THEN m[k] ELSE 0

MapSetMutant(m, k, val) == [x \in DOMAIN m \cup {k} |-> val]

MapSet(m, k, val) == [x \in DOMAIN m \cup {k} |-> IF x = k THEN val ELSE m[x]]

\* ------------------------------------------------------ request objects
\* what a caller controls: the x-wallet-address header, and what the
\* connection supplies: req.ip and req.socket.remoteAddress
WalletA == Str(<<"a">>)
WalletUpperA == Str(<<"A">>)

\* request metadata of the gate's process-lifetime runs
Inputs ==
  { [header |-> WalletA, ip |-> Str(IpAddr), remote |-> Str(PeerAddr)],
    [header |-> WalletUpperA, ip |-> Str(IpAddr), remote |-> Str(PeerAddr)],
    [header |-> Undefined, ip |-> Str(IpAddr), remote |-> Str(PeerAddr)],
    [header |-> Undefined, ip |-> Undefined, remote |-> Undefined],
    [header |-> ListValue, ip |-> Str(IpAddr), remote |-> Str(PeerAddr)] }

\* request metadata for identity resolution on its own
ResolveInputs ==
  [ header : {Undefined, ListValue} \cup {Str(s) : s \in StringsUpTo(MaxLen)},
    ip : {Undefined, Str(IpAddr)},
    remote : {Undefined, Str(PeerAddr)} ]

\* the Express request as the gate receives it: the freemium fields of the
\* Request augmentation are optional and start unset
NewRequestMutant(input) ==
  [ header |-> input.header, ip |-> input.ip, remote |-> input.remote,
    freeTier |-> Some(FALSE), freeTierRemaining |-> Some(0) ]

NewRequest(input) ==
  [ header |-> input.header, ip |-> input.ip, remote |-> input.remote,
    freeTier |-> None, freeTierRemaining |-> None ]

\* ------------------------------------------------------- freemiumGate body
\* line 32: ((req.headers["x-wallet-address"] as string) ?? "")
HeaderOrEmpty(req) == Nullish(req.header, Str(<<>>))

\* .toLowerCase() exists on strings only: anything else is a TypeError
WalletThrows(req) == HeaderOrEmpty(req).t # "string"

WalletMutant(req) == Trim(HeaderOrEmpty(req).v)

Wallet(req) == Trim(ToLowerCase(HeaderOrEmpty(req).v))

\* line 35: wallet || req.ip || req.socket.remoteAddress || "unknown"
ResolveCallerIdMutant(req) ==
  OrElse(OrElse(OrElse(Str(ToLowerCase(HeaderOrEmpty(req).v)), req.remote), req.ip),
         Str(UNKNOWN)).v

ResolveCallerId(req) ==
  OrElse(OrElse(OrElse(Str(Wallet(req)), req.ip), req.remote), Str(UNKNOWN)).v

\* line 39: used < FREE_TIER_LIMIT
IsFreeMutant(used) == used <= FREE_TIER_LIMIT

IsFree(used) == used < FREE_TIER_LIMIT

\* line 40: the count stored on a grant
NextCountMutant(used) == used + 2

NextCountLost(used) == used

NextCount(used) == used + 1

\* line 42: FREE_TIER_LIMIT - used - 1
RemainingMutant(used) == FREE_TIER_LIMIT - used

Remaining(used) == FREE_TIER_LIMIT - used - 1

\* lines 37-46: what one gate call does to the usage map
ConsumeMutant(m, callerId) ==
  MapSet(m, callerId, NextCount(MapGetOrZero(m, callerId)))

Consume(m, callerId) ==
  IF IsFree(MapGetOrZero(m, callerId))
  THEN MapSet(m, callerId, NextCount(MapGetOrZero(m, callerId)))
  ELSE m

\* lines 31-47: the request after the gate ran, with where the gate sent it
\*   route "next"    : next() called, the /scrape handler runs
\*   route "payment" : paymentMiddlewareFn(req, res, next) called
\*   route "threw"   : the middleware threw before choosing a route
GateRequest(m, req) ==
  IF WalletThrows(req)
  THEN [ req |-> req, callerId |-> None, used |-> None, route |-> "threw" ]
  ELSE LET callerId == ResolveCallerId(req)
           used == MapGetOrZero(m, callerId)
       IN IF IsFree(used)
          THEN [ req |-> [req EXCEPT !.freeTier = Some(TRUE),
                                     !.freeTierRemaining = Some(Remaining(used))],
                 callerId |-> Some(callerId), used |-> Some(used),
                 route |-> "next" ]
          ELSE [ req |-> req, callerId |-> Some(callerId), used |-> Some(used),
                 route |-> "payment" ]

GateStore(m, req) ==
  IF WalletThrows(req) THEN m ELSE Consume(m, ResolveCallerId(req))

\* ----------------------------------------------------------------- state
VARIABLES
  walletUsage,  \* Map<string, number> of freemium.ts, one per process
  pending,      \* bag of requests accepted but not yet through express.json()
  log,          \* requests the gate has handled, in the order it handled them
  life,         \* number of the running process (restarts so far)
  served,       \* /scrape handler runs: position in log -> the run's state
  config,       \* process.env as server.ts reads it at load
  clock,        \* Date.now()
  transports,   \* Map<string, StreamableHTTPServerTransport> of mountMcp
  made,         \* the transport objects created so far, in order of creation
  mcpLog        \* requests to /mcp, in the order their handlers started

vars ==
  <<walletUsage, pending, log, life, served, config, clock,
    transports, made, mcpLog>>

\* the state of POST /scrape and the state of /mcp
scrapeVars == <<walletUsage, pending, log, life, served, config, clock>>

mcpVars == <<transports, made, mcpLog>>

\* new Map() of mountMcp, with no session in it
NewSessionTable == [sid \in {} |-> 0]

\* no request to /mcp has been made
McpIdle ==
  /\ transports = NewSessionTable
  /\ made = <<>>
  /\ mcpLog = <<>>

\* process.env with AGENT_PRIVATE_KEY and AGENT_ID unset
DefaultConfig == [key |-> "none", agentId |-> None]

NoRuns == [i \in {} |-> None]

\* where a request of the log stands
\*   "handler" : inside the /scrape handler
\*   "payment" : inside the x402 payment middleware
\*   "402"     : the payment middleware ended the exchange (payment required)
\*   "error"   : Express's error handler answered for a middleware that threw
StageAfterGateFallThrough(route) ==
  CASE route = "next" -> "payment"
    [] route = "payment" -> "payment"
    [] OTHER -> "error"

StageAfterGateOpen(route) ==
  CASE route = "next" -> "handler"
    [] route = "payment" -> "handler"
    [] OTHER -> "error"

StageAfterGate(route) ==
  CASE route = "next" -> "handler"
    [] route = "payment" -> "payment"
    [] OTHER -> "error"

LogEntry(g, l) ==
  [ req |-> g.req, callerId |-> g.callerId, used |-> g.used, route |-> g.route,
    stage |-> StageAfterGate(g.route), paid |-> FALSE, life |-> l ]

Accepted == BagCardinality(pending) + Len(log)

Init ==
  /\ walletUsage = NewMap
  /\ pending = EmptyBag
  /\ log = <<>>
  /\ life = 0
  /\ served = NoRuns
  /\ config = DefaultConfig
  /\ clock = 0
  /\ McpIdle

\* a request reaches the server and waits for its JSON body
Arrive ==
  \E input \in Inputs :
    /\ Accepted < MaxReqs
    /\ pending' = pending (+) SetToBag({NewRequest(input)})
    /\ UNCHANGED <<walletUsage, log, life, served, config, clock>>
    /\ UNCHANGED mcpVars

\* the middleware returned by freemiumGate runs for one waiting request;
\* it is synchronous, so the read of the count and its update are one step
Gate ==
  \E req \in BagToSet(pending) :
    /\ pending' = pending (-) SetToBag({req})
    /\ walletUsage' = GateStore(walletUsage, req)
    /\ log' = Append(log, LogEntry(GateRequest(walletUsage, req), life))
    /\ UNCHANGED <<life, served, config, clock>>
    /\ UNCHANGED mcpVars

\* walletUsage is a module-level const of freemium.ts that is not exported:
\* the payment middleware cannot reach it, whatever it decides
PaymentStoreMutant(m, entry) ==
  IF entry.callerId # None /\ MapHas(m, entry.callerId[1])
  THEN MapSet(m, entry.callerId[1], 0)
  ELSE m

PaymentStoreCountMutant(m, entry) ==
  IF entry.callerId # None
  THEN MapSet(m, entry.callerId[1], MapGetOrZero(m, entry.callerId[1]) + 1)
  ELSE m

PaymentStore(m, entry) == m

\* the payment middleware accepts the payment and calls next()
PaymentNext ==
  \E i \in 1..Len(log) :
    /\ log[i].life = life
    /\ log[i].stage = "payment"
    /\ log' = [log EXCEPT ![i].stage = "handler", ![i].paid = TRUE]
    /\ walletUsage' = PaymentStore(walletUsage, log[i])
    /\ UNCHANGED <<pending, life, served, config, clock>>
    /\ UNCHANGED mcpVars

\* the payment middleware answers 402 Payment Required and ends the exchange
PaymentRequired ==
  \E i \in 1..Len(log) :
    /\ log[i].life = life
    /\ log[i].stage = "payment"
    /\ log' = [log EXCEPT ![i].stage = "402"]
    /\ UNCHANGED <<walletUsage, pending, life, served, config, clock>>
    /\ UNCHANGED mcpVars

\* the process is restarted: the module is loaded again and every request of
\* the old process is gone
Restart ==
  /\ life < MaxRestarts
  /\ walletUsage' = NewMap
  /\ pending' = EmptyBag
  /\ life' = life + 1
  /\ transports' = NewSessionTable
  /\ made' = <<>>
  /\ UNCHANGED <<log, served, config, clock, mcpLog>>

Next == Arrive \/ Gate \/ PaymentNext \/ PaymentRequired \/ Restart

Spec == Init /\ [][Next]_vars

\* identity resolution on its own: one request with any metadata
InitResolve ==
  /\ walletUsage = NewMap
  /\ \E input \in ResolveInputs : pending = SetToBag({NewRequest(input)})
  /\ log = <<>>
  /\ life = 0
  /\ served = NoRuns
  /\ config = DefaultConfig
  /\ clock = 0
  /\ McpIdle

NextResolve == Gate

SpecResolve == InitResolve /\ [][NextResolve]_vars

\* ================================================ the /scrape handler
\* bounds of the handler runs
\* requests accepted when whole handler runs are followed
MaxServed == 3
\* largest value Date.now() takes
MaxClock == 1

\* ------------------------------------------------------- more JS values
Null == [t |-> "null", v |-> <<>>]
\* a JSON value that is not a string
NumberValue == [t |-> "number", v |-> <<>>]

\* addresses as ethers accepts them, and a string it rejects
ClientAddr == <<"0", "x", "c">>
AgentAddr == <<"0", "x", "a">>
RegistryAddr == <<"0", "x", "r">>
BadAddr == <<"c">>

\* ethers getAddress(): does the string denote an address
IsAddress(s) == s \in {ClientAddr, AgentAddr, RegistryAddr}

Digits == <<"0", "1", "2", "3", "4", "5", "6", "7", "8", "9">>

\* String(n) for a non-negative integer, as string concatenation renders it
RECURSIVE Decimal(_)
Decimal(n) ==
  IF n < 10 THEN <<Digits[n + 1]>>
  ELSE Append(Decimal(n \div 10), Digits[(n % 10) + 1])

\* keccak256, kept symbolic: equal digests have equal preimages
Keccak256(data) == [keccak |-> data]

\* ethers id(text) = keccak256(toUtf8Bytes(text))
Id(text) == Keccak256(text)

\* A byte is [j, src, val]: byte j of the value val that src produced.
\* A byte string is a sequence of runs: [n, first] stands for n bytes, the
\* first one being `first` and each next one the next byte of the same value
\* (a zero byte is followed by zero bytes).
NextByte(b, m) == IF b.src = "zero" THEN b ELSE [b EXCEPT !.j = b.j + m]

RECURSIVE LenBytes(_)
LenBytes(runs) ==
  IF runs = <<>> THEN 0 ELSE runs[1].n + LenBytes(Tail(runs))

\* the first n bytes
RECURSIVE TakeBytes(_, _)
TakeBytes(runs, n) ==
  IF n <= 0 \/ runs = <<>> THEN <<>>
  ELSE IF runs[1].n <= n
  THEN <<runs[1]>> \o TakeBytes(Tail(runs), n - runs[1].n)
  ELSE <<[runs[1] EXCEPT !.n = n]>>

\* all but the first n bytes
RECURSIVE DropBytes(_, _)
DropBytes(runs, n) ==
  IF n <= 0 \/ runs = <<>> THEN runs
  ELSE IF runs[1].n <= n
  THEN DropBytes(Tail(runs), n - runs[1].n)
  ELSE <<[n |-> runs[1].n - n, first |-> NextByte(runs[1].first, n)]>>
       \o Tail(runs)

\* ---------------------------------------------------- server.ts at load
AgentIdValue == 7
CHAIN_ID == 84532
INDEX_LIMIT == 1000
EXPIRY_SECONDS == 3600
AUTH_ENCODED_LEN == 224
AUTH_SIG_LEN == 65
\* ethers: bytes of one ABI word and of a signature (r, s, v)
WordBytes == 32
SignatureBytes == 65
UpstreamStatus == 404

Configs ==
  [ key : {"none", "valid", "malformed"}, agentId : {None, Some(AgentIdValue)} ]

\* lines 24-26: new Wallet(AGENT_PRIVATE_KEY) or null
AgentWallet(cfg) ==
  IF cfg.key = "valid" THEN Some([address |-> AgentAddr]) ELSE None

\* new Wallet() throws on a key that is not a private key: the module does
\* not finish loading and app.listen() is never reached
ServerUp(cfg) == cfg.key # "malformed"

\* ------------------------------------------------------ ABI and signing
AbiTypes ==
  <<"uint256", "address", "uint64", "uint256", "uint256", "address", "address">>

\* the address coder rejects a value that is not an address
AbiEncodeThrows(types, values) ==
  \E k \in 1..Len(types) : types[k] = "address" /\ ~IsAddress(values[k])

\* every static value takes one word of WordBytes bytes
AbiEncode(types, values) ==
  [ k \in 1..Len(types) |->
      [n |-> WordBytes, first |-> [j |-> 1, src |-> types[k], val |-> values[k]]] ]

\* wallet.signMessage(message): the bytes of a signature by wallet over the
\* EIP-191 personal message
SignMessage(wallet, message) ==
  << [ n |-> SignatureBytes,
       first |-> [ j |-> 1, src |-> "sig",
                   val |-> [signer |-> wallet.address, over |-> message] ] ] >>

\* new Uint8Array(n)
NewBytes(n) == <<[n |-> n, first |-> [j |-> 0, src |-> "zero", val |-> <<>>]]>>

\* arr.set(src, offset): src fits into arr from offset on
SetBytes(arr, src, offset) ==
  TakeBytes(arr, offset) \o src \o DropBytes(arr, offset + LenBytes(src))

\* hexlify(bytes): two hex digits per byte after "0x"
Hexlify(bytes) == [hex |-> bytes]

\* ------------------------------------------------------ the handler body
\* line 80
BodyUrl(body) ==
  IF body.url.t = "string" THEN Str(Trim(body.url.v)) ELSE Undefined

\* lines 106-110
ClientAddressMutant(req) ==
  OrElse(IF req.header.t = "string" THEN Str(Trim(req.header.v)) ELSE Null,
         IF req.body.clientAddress.t = "string"
         THEN Str(Trim(req.body.clientAddress.v)) ELSE Null)

ClientAddress(req) ==
  OrElse(IF req.body.clientAddress.t = "string"
         THEN Str(Trim(req.body.clientAddress.v)) ELSE Null,
         IF req.header.t = "string" THEN Str(Trim(req.header.v)) ELSE Null)

\* line 111: agentWallet && clientAddress
ShouldAttestMutant(cfg, clientAddress) == AgentWallet(cfg) # None

ShouldAttest(cfg, clientAddress) ==
  AgentWallet(cfg) # None /\ Truthy(clientAddress)

\* line 112: id(url + Date.now())
TaskIdMutant(url, now) == Id(url)

TaskId(url, now) == Id(url \o Decimal(now))

\* line 117
Expiry(now) == (now \div 1000) + EXPIRY_SECONDS

\* lines 121-129; numbers are written in decimal
AbiValuesMutant(cfg, clientAddress, now) ==
  << Decimal(cfg.agentId[1]), clientAddress, Decimal(INDEX_LIMIT),
     Decimal(Expiry(now)), Decimal(CHAIN_ID), AgentWallet(cfg)[1].address,
     RegistryAddr >>

AbiValues(cfg, clientAddress, now) ==
  << Decimal(cfg.agentId[1]), clientAddress, Decimal(INDEX_LIMIT),
     Decimal(Expiry(now)), Decimal(CHAIN_ID), RegistryAddr,
     AgentWallet(cfg)[1].address >>

\* lines 133-135
AuthBytes(encodedStruct, contractSig) ==
  SetBytes(SetBytes(NewBytes(AUTH_ENCODED_LEN + AUTH_SIG_LEN), encodedStruct, 0),
           contractSig, AUTH_ENCODED_LEN)

\* lines 131-136
FeedbackAuthContract(cfg, clientAddress, now) ==
  LET encodedStruct == AbiEncode(AbiTypes, AbiValues(cfg, clientAddress, now))
      structHash == Keccak256(encodedStruct)
      contractSig == SignMessage(AgentWallet(cfg)[1], structHash)
  IN Hexlify(AuthBytes(encodedStruct, contractSig))

\* lines 140-143
FeedbackAuth(cfg, url, now) ==
  [agentId |-> AgentWallet(cfg)[1].address, taskId |-> TaskId(url, now)]

\* lines 136-143: the attestation fields of the payload; blob is None when
\* no numeric agent id is configured
AttestFieldsMutant(fa, blob) ==
  [ feedbackAuth |-> IF blob = None THEN Some(fa) ELSE None,
    feedbackAuthContract |-> blob ]

AttestFields(fa, blob) ==
  [feedbackAuth |-> Some(fa), feedbackAuthContract |-> blob]

\* outcomes of extractUrl(): data, an upstream error status, or a failure
\* without a status (no API key, network exception)
ExtractResults ==
  { [ok |-> TRUE, status |-> None],
    [ok |-> FALSE, status |-> Some(UpstreamStatus)],
    [ok |-> FALSE, status |-> None] }

\* one run of the handler
\*   step "extract" : awaiting extractUrl()
\*   step "sign"    : awaiting agentWallet.signMessage()
\*   step "done"    : a response was sent: status, kind of body, and the
\*                    attestation fields of the payload
NewRun ==
  [ step |-> "extract", aborted |-> FALSE, result |-> None, now |-> None,
    status |-> None, kind |-> "none",
    feedbackAuth |-> None, feedbackAuthContract |-> None ]

RespondError(run, code) ==
  [run EXCEPT !.step = "done", !.status = Some(code), !.kind = "error"]

\* res.json(payload)
RespondResult(run, fields) ==
  [run EXCEPT !.step = "done", !.status = Some(200), !.kind = "result",
              !.feedbackAuth = fields.feedbackAuth,
              !.feedbackAuthContract = fields.feedbackAuthContract]

NoAttestFields == [feedbackAuth |-> None, feedbackAuthContract |-> None]

\* lines 74-91, up to the await of extractUrl()
HandlerEntry(req) ==
  IF ~Truthy(BodyUrl(req.body)) THEN RespondError(NewRun, 400) ELSE NewRun

\* line 97: result.status ?? 503
FailureStatusMutant(result) == 503

FailureStatus(result) ==
  IF result.status = None THEN 503 ELSE result.status[1]

\* lines 96-132 and 139-150, from the result of extractUrl() to the await of
\* signMessage() or to the response
AfterExtract(cfg, req, run, result, now) ==
  LET got == [run EXCEPT !.result = Some(result)]
      url == BodyUrl(req.body).v
      clientAddress == ClientAddress(req)
  IN IF ~result.ok
     THEN RespondError(got, FailureStatus(result))
     ELSE IF ~ShouldAttest(cfg, clientAddress)
     THEN RespondResult(got, NoAttestFields)
     ELSE IF cfg.agentId = None
     THEN RespondResult([got EXCEPT !.now = Some(now)],
                        AttestFields(FeedbackAuth(cfg, url, now), None))
     ELSE IF AbiEncodeThrows(AbiTypes, AbiValues(cfg, clientAddress.v, now))
     THEN RespondError([got EXCEPT !.now = Some(now)], 500)
     ELSE [got EXCEPT !.step = "sign", !.now = Some(now)]

\* lines 132-146, from the signature to the response
AfterSignMutant(cfg, req, run) == RespondResult(run, NoAttestFields)

AfterSign(cfg, req, run) ==
  RespondResult(run,
    AttestFields(FeedbackAuth(cfg, BodyUrl(req.body).v, run.now[1]),
                 Some(FeedbackAuthContract(cfg, ClientAddress(req).v, run.now[1]))))

\* the handler has no access to walletUsage: whatever a run ends in, the
\* map stays as the gate left it
HandlerStoreMutant(m, entry, run) ==
  IF /\ run.step = "done" /\ run.status # Some(200)
     /\ entry.route = "next" /\ MapGetOrZero(m, entry.callerId[1]) > 0
  THEN MapSet(m, entry.callerId[1], m[entry.callerId[1]] - 1)
  ELSE m

HandlerStoreCountMutant(m, entry, run) ==
  IF run.step = "done" /\ run.status = Some(200) /\ entry.callerId # None
  THEN MapSet(m, entry.callerId[1], MapGetOrZero(m, entry.callerId[1]) + 1)
  ELSE m

HandlerStore(m, entry, run) == m

WithRun(i, run) == [j \in DOMAIN served \cup {i} |-> IF j = i THEN run ELSE served[j]]

\* the request as Express hands it to the chain once the body is parsed
NewScrapeRequest(input, body) ==
  [ header |-> NewRequest(input).header, ip |-> NewRequest(input).ip,
    remote |-> NewRequest(input).remote,
    freeTier |-> NewRequest(input).freeTier,
    freeTierRemaining |-> NewRequest(input).freeTierRemaining,
    body |-> body ]

\* request inputs when whole handler runs are followed
ServeInputs ==
  [ header : {Str(ClientAddr), Str(BadAddr)},
    ip : {Str(IpAddr)}, remote : {Str(PeerAddr)} ]

ServeBodies ==
  [ url : {Undefined, Str(<<"u">>)}, clientAddress : {Undefined} ]

\* a body without url is sent under the first wallet only
ServeRequests ==
  { rq \in [input : ServeInputs, body : ServeBodies] :
      rq.body.url = Undefined => rq.input.header = Str(ClientAddr) }

\* request inputs when one request is followed
RequestInputs ==
  [ header : {Undefined, Str(<<" ">>), Str(ClientAddr), Str(BadAddr)},
    ip : {Str(IpAddr)}, remote : {Str(PeerAddr)} ]

RequestBodies ==
  [ url : {Undefined, Str(<<" ">>), Str(<<"u">>), Str(<<" ", "u">>)},
    clientAddress : {Undefined, NumberValue, Str(<<" ">>), Str(ClientAddr),
                     Str(<<" ">> \o ClientAddr), Str(BadAddr)} ]

\* a request for /scrape reaches the listening server
ArriveServe ==
  \E rq \in ServeRequests :
    /\ ServerUp(config)
    /\ Accepted < MaxServed
    /\ pending' = pending (+) SetToBag({NewScrapeRequest(rq.input, rq.body)})
    /\ UNCHANGED <<walletUsage, log, life, served, config, clock>>
    /\ UNCHANGED mcpVars

\* next() reached the handler: it runs up to its first await
HandlerStart ==
  \E i \in 1..Len(log) :
    /\ log[i].life = life
    /\ log[i].stage = "handler"
    /\ i \notin DOMAIN served
    /\ served' = WithRun(i, HandlerEntry(log[i].req))
    /\ walletUsage' = HandlerStore(walletUsage, log[i], HandlerEntry(log[i].req))
    /\ UNCHANGED <<pending, log, life, config, clock>>
    /\ UNCHANGED mcpVars

\* extractUrl() resolves and the handler runs up to its next await or to
\* its response
ExtractDone ==
  \E i \in DOMAIN served, result \in ExtractResults :
    /\ log[i].life = life
    /\ served[i].step = "extract"
    /\ served' = WithRun(i, AfterExtract(config, log[i].req, served[i], result, clock))
    /\ walletUsage' =
         HandlerStore(walletUsage, log[i],
                      AfterExtract(config, log[i].req, served[i], result, clock))
    /\ UNCHANGED <<pending, log, life, config, clock>>
    /\ UNCHANGED mcpVars

\* signMessage() resolves and the handler sends its response
SignDone ==
  \E i \in DOMAIN served :
    /\ log[i].life = life
    /\ served[i].step = "sign"
    /\ served' = WithRun(i, AfterSign(config, log[i].req, served[i]))
    /\ walletUsage' =
         HandlerStore(walletUsage, log[i], AfterSign(config, log[i].req, served[i]))
    /\ UNCHANGED <<pending, log, life, config, clock>>
    /\ UNCHANGED mcpVars

\* the caller drops the connection while the handler is awaiting
ClientAbort ==
  \E i \in DOMAIN served :
    /\ log[i].life = life
    /\ served[i].step # "done"
    /\ ~served[i].aborted
    /\ served' = WithRun(i, [served[i] EXCEPT !.aborted = TRUE])
    /\ UNCHANGED <<walletUsage, pending, log, life, config, clock>>
    /\ UNCHANGED mcpVars

\* time passes
Tick ==
  /\ clock < MaxClock
  /\ clock' = clock + 1
  /\ UNCHANGED <<walletUsage, pending, log, life, served, config>>
  /\ UNCHANGED mcpVars

\* whole requests, gate to response, with the signer and agent id configured
InitServe ==
  /\ walletUsage = NewMap
  /\ pending = EmptyBag
  /\ log = <<>>
  /\ life = 0
  /\ served = NoRuns
  /\ config = [key |-> "valid", agentId |-> Some(AgentIdValue)]
  /\ clock = 0
  /\ McpIdle

NextServe ==
  \/ ArriveServe \/ Gate \/ PaymentNext \/ PaymentRequired
  \/ HandlerStart \/ ExtractDone \/ SignDone \/ Tick

SpecServe == InitServe /\ [][NextServe]_vars

\* one request from arrival to response, under any configuration
InitRequest ==
  /\ walletUsage = NewMap
  /\ config \in Configs
  /\ \E input \in RequestInputs, body \in RequestBodies :
       pending = IF ServerUp(config)
                 THEN SetToBag({NewScrapeRequest(input, body)})
                 ELSE EmptyBag
  /\ log = <<>>
  /\ life = 0
  /\ served = NoRuns
  /\ clock = 0
  /\ McpIdle

NextRequest ==
  Gate \/ HandlerStart \/ ExtractDone \/ SignDone \/ ClientAbort \/ Tick

SpecRequest == InitRequest /\ [][NextRequest]_vars

\* FREE_TIER_LIMIT + 1 requests whose wallet headers are any strings
VariantInputs ==
  [ header : {Str(h) : h \in StringsUpTo(MaxLen)},
    ip : {Str(IpAddr)}, remote : {Str(PeerAddr)} ]

ArriveVariant ==
  \E input \in VariantInputs :
    /\ Accepted <= FREE_TIER_LIMIT
    /\ pending' = pending (+) SetToBag({NewRequest(input)})
    /\ UNCHANGED <<walletUsage, log, life, served, config, clock>>
    /\ UNCHANGED mcpVars

NextVariants == ArriveVariant \/ Gate

SpecVariants == Init /\ [][NextVariants]_vars

\* task references: deliveries of urls that end in a digit or not, at
\* timestamps whose decimal forms differ in length
\* requests followed when task references are compared
MaxTasks == 2
\* largest value Date.now() takes there
MaxStamp == 10

TaskUrls == {Str(<<"u">>), Str(<<"u", "1">>)}

TaskRequests ==
  [ input : [header : {Str(ClientAddr)}, ip : {Str(IpAddr)}, remote : {Str(PeerAddr)}],
    body : [url : TaskUrls, clientAddress : {Undefined}] ]

ArriveTask ==
  \E rq \in TaskRequests :
    /\ ServerUp(config)
    /\ Accepted < MaxTasks
    /\ pending' = pending (+) SetToBag({NewScrapeRequest(rq.input, rq.body)})
    /\ UNCHANGED <<walletUsage, log, life, served, config, clock>>
    /\ UNCHANGED mcpVars

\* time passes, by any number of milliseconds
Advance ==
  \E t \in (clock + 1)..MaxStamp :
    /\ clock' = t
    /\ UNCHANGED <<walletUsage, pending, log, life, served, config>>
    /\ UNCHANGED mcpVars

\* a signer key and no numeric agent id: responses carry feedbackAuth only
InitTask ==
  /\ walletUsage = NewMap
  /\ pending = EmptyBag
  /\ log = <<>>
  /\ life = 0
  /\ served = NoRuns
  /\ config = [key |-> "valid", agentId |-> None]
  /\ clock = 0
  /\ McpIdle

NextTask == ArriveTask \/ Gate \/ HandlerStart \/ ExtractDone \/ Advance

SpecTask == InitTask /\ [][NextTask]_vars

\* ==================================================== the /mcp endpoints
\* requests to /mcp over the whole run
MaxMcpReqs == 3
\* session ids a caller may put in the mcp-session-id header
MaxIds == 2

\* the k-th session id the server issued
SessionId(k) == <<"s">> \o Decimal(k)

\* randomUUID(): an id that was not issued before
RandomUUID(ts) ==
  SessionId(Cardinality({t \in 1..Len(ts) : ts[t].sessionId # None}) + 1)

\* new StreamableHTTPServerTransport(...): no session id until initialized
NewTransport == [sessionId |-> None, closed |-> FALSE]

\* Map.prototype.delete
MapDelete(m, k) == [x \in DOMAIN m \ {k} |-> m[x]]

\* what a caller sends: the method, the mcp-session-id header and whether
\* the body is an initialize request (isInitializeRequest(req.body))
McpRequests ==
  { rq \in [ method : {"POST", "GET", "DELETE"},
             sessionId : {Undefined, Str(<<>>)}
                           \cup {Str(SessionId(k)) : k \in 1..MaxIds},
             init : BOOLEAN ] :
      rq.method # "POST" => ~rq.init }

\* lines 107-136: what the POST handler does with a request
\*   "session" : hand it to the transport of its session
\*   "create"  : make a new transport for it
\*   "400"     : answer 400
PostRouteMutant(m, rq) ==
  IF Truthy(rq.sessionId) /\ MapHas(m, rq.sessionId.v) THEN "session"
  ELSE IF rq.init THEN "create"
  ELSE "400"

PostRoute(m, rq) ==
  IF Truthy(rq.sessionId) /\ MapHas(m, rq.sessionId.v) THEN "session"
  ELSE IF ~Truthy(rq.sessionId) /\ rq.init THEN "create"
  ELSE "400"

\* lines 150-156 and 160-166: the GET and DELETE handlers
SessionRoute(m, rq) ==
  IF ~Truthy(rq.sessionId) \/ ~MapHas(m, rq.sessionId.v) THEN "400"
  ELSE "session"

McpRoute(m, rq) ==
  IF rq.method = "POST" THEN PostRoute(m, rq) ELSE SessionRoute(m, rq)

\* lines 117-119: onsessioninitialized of transport t
OnSessionInitialized(m, sid, t) == MapSet(m, sid, t)

\* lines 122-125: onclose of a transport
OnCloseMutant(m, transport) == m

OnClose(m, transport) ==
  IF transport.sessionId # None THEN MapDelete(m, transport.sessionId[1]) ELSE m

\* a request of mcpLog
\*   step "connect" : awaiting mcpServer.connect(transport)
\*   step "handle"  : awaiting transport.handleRequest(req, res, ...)
\*   step "done"    : answered
\*   to             : the transport the handler chose for it, if any
McpEntry(rq, step, to, status) ==
  [rq |-> rq, step |-> step, to |-> to, status |-> status]

\* the handler of a request, from its start to its first await or to its
\* 400 response
McpStart(m, ts, rq) ==
  CASE McpRoute(m, rq) = "session" ->
         McpEntry(rq, "handle", Some(m[rq.sessionId.v]), None)
    [] McpRoute(m, rq) = "create" ->
         McpEntry(rq, "connect", Some(Len(ts) + 1), None)
    [] OTHER -> McpEntry(rq, "done", None, Some(400))

\* what transport.handleRequest() can come to
\*   "initialized" : an initialize request on a transport without session:
\*                   an id is generated and onsessioninitialized is called
\*   "closed"      : a DELETE on a transport with a session: the transport
\*                   closes and onclose is called
\*   "answered"    : the transport answers and is as before
\*   "rejected"    : the transport refuses the request (headers, protocol
\*                   version, a second initialize) and is as before
HandleOutcomes(ts, entry) ==
  LET transport == ts[entry.to[1]]
  IN IF transport.sessionId = None
     THEN IF entry.rq.method = "POST" /\ entry.rq.init
          THEN {"initialized", "rejected"} ELSE {"rejected"}
     ELSE IF entry.rq.method = "DELETE" THEN {"closed", "rejected"}
     ELSE IF entry.rq.method = "POST" /\ entry.rq.init THEN {"rejected"}
     ELSE {"answered", "rejected"}

\* the transports after handleRequest() came to outcome
HandledTransports(ts, entry, outcome) ==
  CASE outcome = "initialized" ->
         [ts EXCEPT ![entry.to[1]].sessionId = Some(RandomUUID(ts))]
    [] outcome = "closed" -> [ts EXCEPT ![entry.to[1]].closed = TRUE]
    [] OTHER -> ts

\* the session table after handleRequest() came to outcome
HandledTable(m, ts, entry, outcome) ==
  CASE outcome = "initialized" ->
         OnSessionInitialized(m, RandomUUID(ts), entry.to[1])
    [] outcome = "closed" -> OnClose(m, ts[entry.to[1]])
    [] OTHER -> m

HandledStatus(outcome) == IF outcome = "rejected" THEN 400 ELSE 200

\* a request reaches /mcp and its handler runs up to its first await
McpReceive ==
  \E rq \in McpRequests :
    /\ Len(mcpLog) < MaxMcpReqs
    /\ mcpLog' = Append(mcpLog, McpStart(transports, made, rq))
    /\ made' = IF McpRoute(transports, rq) = "create"
               THEN Append(made, NewTransport) ELSE made
    /\ UNCHANGED transports
    /\ UNCHANGED scrapeVars

\* mcpServer.connect(transport) resolves
McpConnected ==
  \E r \in 1..Len(mcpLog) :
    /\ mcpLog[r].step = "connect"
    /\ mcpLog' = [mcpLog EXCEPT ![r].step = "handle"]
    /\ UNCHANGED <<transports, made>>
    /\ UNCHANGED scrapeVars

\* mcpServer.connect(transport) rejects: the catch of the POST handler
\* answers 500
McpConnectFailed ==
  \E r \in 1..Len(mcpLog) :
    /\ mcpLog[r].step = "connect"
    /\ mcpLog' = [mcpLog EXCEPT ![r].step = "done", ![r].status = Some(500)]
    /\ UNCHANGED <<transports, made>>
    /\ UNCHANGED scrapeVars

\* transport.handleRequest() runs for a request handed to a transport
McpHandled ==
  \E r \in 1..Len(mcpLog) :
    /\ mcpLog[r].step = "handle"
    /\ \E outcome \in HandleOutcomes(made, mcpLog[r]) :
         /\ made' = HandledTransports(made, mcpLog[r], outcome)
         /\ transports' = HandledTable(transports, made, mcpLog[r], outcome)
         /\ mcpLog' = [mcpLog EXCEPT ![r].step = "done",
                                     ![r].status = Some(HandledStatus(outcome))]
    /\ UNCHANGED scrapeVars

NextMcp == McpReceive \/ McpConnected \/ McpConnectFailed \/ McpHandled

SpecMcp == Init /\ [][NextMcp]_vars

\* =================================================================== claims
\* positions of the log where the gate resolved identity id in process l
Calls(id, l) ==
  {i \in 1..Len(log) : log[i].life = l /\ log[i].callerId = Some(id)}

\* positions of the log where identity id was let through free in process l
Grants(id, l) ==
  {i \in Calls(id, l) : log[i].route = "next"}

\* log[i] is the Rank(i)-th gate call of its identity in its process
Rank(i) ==
  Cardinality({j \in 1..i : /\ log[j].life = log[i].life
                            /\ log[j].callerId = log[i].callerId})

Identities == {log[i].callerId[1] : i \in {j \in 1..Len(log) : log[j].callerId # None}}

Lives == 0..life

Min(a, b) == IF a < b THEN a ELSE b

\* the step is one call of the gate
IsGateStep == Len(log') = Len(log) + 1

Gated == log'[Len(log')]

\* C1: per identity and process, calls 1..FREE_TIER_LIMIT of the gate go
\* straight to the handler and every later call goes to the payment
\* middleware, so call FREE_TIER_LIMIT + 1 is the first one sent there
C1_FirstNFree ==
  \A i \in 1..Len(log) :
    log[i].callerId # None =>
      /\ Rank(i) <= FREE_TIER_LIMIT => log[i].route = "next"
      /\ Rank(i) > FREE_TIER_LIMIT => log[i].route = "payment"

C1_Witness ==
  \E i \in 1..Len(log) :
    /\ log[i].callerId # None
    /\ Rank(i) = FREE_TIER_LIMIT + 1
    /\ log[i].route = "payment"
    /\ \A j \in 1..(i - 1) :
         (log[j].life = log[i].life /\ log[j].callerId = log[i].callerId)
           => log[j].route = "next"

\* C2: however the calls of one identity interleave, the number let through
\* free is exactly min(FREE_TIER_LIMIT, number of calls): never more than
\* the limit, never fewer
C2_ExactlyLimitGranted ==
  \A id \in Identities : \A l \in Lives :
    Cardinality(Grants(id, l)) =
      Min(FREE_TIER_LIMIT, Cardinality(Calls(id, l)))

\* FREE_TIER_LIMIT + 1 requests of one identity are in flight at once (each
\* past the gate, none answered yet) and exactly FREE_TIER_LIMIT were granted
C2_Witness ==
  \E id \in Identities :
    LET open == {i \in Calls(id, life) : log[i].stage \in {"handler", "payment"}}
    IN /\ Cardinality(open) > FREE_TIER_LIMIT
       /\ Cardinality(Grants(id, life)) = FREE_TIER_LIMIT
       /\ \E i \in open : log[i].route = "payment"

\* C3: a gate call for one identity leaves the stored count of every other
\* identity as it was
C3_IdentityScoped ==
  [][IsGateStep =>
       \A id \in DOMAIN walletUsage \cup DOMAIN walletUsage' :
         Gated.callerId # Some(id) =>
           /\ MapHas(walletUsage', id) = MapHas(walletUsage, id)
           /\ MapGetOrZero(walletUsage', id) = MapGetOrZero(walletUsage, id)]_vars

\* identity "a" has used up its quota and been denied, and another identity
\* then still got its first free call
C3_Witness ==
  \E i, j \in 1..Len(log) :
    /\ i < j
    /\ log[i].life = life /\ log[j].life = life
    /\ log[i].callerId # None /\ log[j].callerId # None
    /\ log[i].callerId # log[j].callerId
    /\ log[i].route = "payment"
    /\ log[j].route = "next" /\ log[j].used = Some(0)
    /\ walletUsage[log[i].callerId[1]] = FREE_TIER_LIMIT
    /\ walletUsage[log[j].callerId[1]] = 1

\* C4: within a process the stored count of an identity never goes down; a
\* step adds exactly 1 when it is a free grant to that identity and 0
\* otherwise, so the count always equals the free grants made so far
C4_CountIsGrants ==
  /\ [](\A id \in Identities \cup DOMAIN walletUsage :
          MapGetOrZero(walletUsage, id) = Cardinality(Grants(id, life)))
  /\ [][life' = life =>
          \A id \in DOMAIN walletUsage \cup DOMAIN walletUsage' :
            MapGetOrZero(walletUsage', id) - MapGetOrZero(walletUsage, id) =
              IF IsGateStep /\ Gated.callerId = Some(id) /\ Gated.route = "next"
              THEN 1 ELSE 0]_vars

C4_Witness ==
  \E id \in DOMAIN walletUsage :
    /\ walletUsage[id] = FREE_TIER_LIMIT
    /\ Cardinality(Grants(id, life)) = FREE_TIER_LIMIT
    /\ Cardinality(Calls(id, life)) > FREE_TIER_LIMIT

\* C5: a denied gate call leaves the whole usage map as it was, and so does
\* whatever the payment middleware then does with the request
C5_DeniedNoMutation ==
  [][(\/ IsGateStep /\ Gated.route = "payment"
      \/ Len(log') = Len(log) /\ log' # log)
       => walletUsage' = walletUsage]_vars

C5_Witness ==
  \E i, j \in 1..Len(log) :
    /\ log[i].life = life /\ log[j].life = life
    /\ log[i].callerId = log[j].callerId
    /\ log[i].route = "payment" /\ log[i].stage = "402"
    /\ log[j].route = "payment" /\ log[j].stage = "handler"
    /\ walletUsage[log[i].callerId[1]] = FREE_TIER_LIMIT

\* C6: a granted call reports FREE_TIER_LIMIT - consumed - 1 free calls left,
\* consumed being the grants made before it: 1 on the first call, 0 on the
\* second, never a negative number
C6_Remaining ==
  \A i \in 1..Len(log) :
    log[i].route = "next" =>
      /\ log[i].req.freeTierRemaining =
           Some(FREE_TIER_LIMIT - (Rank(i) - 1) - 1)
      /\ log[i].used = Some(Rank(i) - 1)
      /\ log[i].req.freeTierRemaining[1] >= 0
      /\ Rank(i) = 1 => log[i].req.freeTierRemaining = Some(1)
      /\ Rank(i) = 2 => log[i].req.freeTierRemaining = Some(0)

C6_Witness ==
  \E i, j \in 1..Len(log) :
    /\ i < j
    /\ log[i].life = log[j].life
    /\ log[i].callerId = log[j].callerId
    /\ log[i].route = "next" /\ log[i].req.freeTierRemaining = Some(1)
    /\ log[j].route = "next" /\ log[j].req.freeTierRemaining = Some(0)

\* C7 as stated: a request sent to the payment middleware carries
\* freeTier = false and freeTierRemaining = 0
C7_DeniedExplicitZero ==
  \A i \in 1..Len(log) :
    log[i].route = "payment" =>
      /\ log[i].req.freeTier = Some(FALSE)
      /\ log[i].req.freeTierRemaining = Some(0)

\* C7 as amended: the gate sets nothing on a request it sends to the payment
\* middleware; freeTier and freeTierRemaining stay unset on it, and
\* freeTier is set (to true) exactly on the requests let through free
C7_DeniedFieldsUnset ==
  \A i \in 1..Len(log) :
    /\ log[i].route = "payment" =>
         /\ log[i].req.freeTier = None
         /\ log[i].req.freeTierRemaining = None
    /\ log[i].req.freeTier # None =>
         /\ log[i].route = "next"
         /\ log[i].req.freeTier = Some(TRUE)

C7_Witness ==
  \E i \in 1..Len(log) :
    /\ log[i].route = "payment"
    /\ log[i].used = Some(FREE_TIER_LIMIT)
    /\ log[i].req.freeTier = None
    /\ log[i].req.freeTierRemaining = None

\* C8: a restart leaves no identity with a consumed count, and in the new
\* process every identity is again let through free FREE_TIER_LIMIT times,
\* whatever it used before
C8_RestartResets ==
  /\ [][life' # life => walletUsage' = [k \in {} |-> 0]]_vars
  /\ [](\A i \in 1..Len(log) :
          (log[i].life > 0 /\ log[i].callerId # None) =>
            /\ log[i].used = Some(Min(Rank(i) - 1, FREE_TIER_LIMIT))
            /\ (log[i].route = "next") = (Rank(i) <= FREE_TIER_LIMIT))

C8_Witness ==
  \E id \in Identities :
    /\ life = 1
    /\ Cardinality(Grants(id, 0)) = FREE_TIER_LIMIT
    /\ Cardinality(Grants(id, 1)) = FREE_TIER_LIMIT
    /\ walletUsage[id] = FREE_TIER_LIMIT

\* the identity the stated priority gives: trimmed, lower-cased wallet
\* header if that is not empty, else req.ip, else the socket's peer address,
\* else "unknown"
PriorityIdentity(req) ==
  LET w == IF req.header.t = "string" THEN ToLowerCase(Trim(req.header.v)) ELSE <<>>
  IN IF w # <<>> THEN w
     ELSE IF req.ip.t = "string" /\ req.ip.v # <<>> THEN req.ip.v
     ELSE IF req.remote.t = "string" /\ req.remote.v # <<>> THEN req.remote.v
     ELSE UNKNOWN

IsBlank(s) == \A k \in 1..Len(s) : s[k] = " "

\* C9: for a wallet header that is a string or absent, the resolved identity
\* follows the priority wallet header, req.ip, peer address, "unknown"; it
\* is never the empty string, and a header of only whitespace resolves as
\* an absent one does
C9_ResolutionPriority ==
  \A i \in 1..Len(log) :
    log[i].req.header.t # "list" =>
      /\ log[i].callerId = Some(PriorityIdentity(log[i].req))
      /\ log[i].callerId # Some(<<>>)
      /\ (log[i].req.header.t = "string" /\ IsBlank(log[i].req.header.v)) =>
           log[i].callerId =
             Some(ResolveCallerId([log[i].req EXCEPT !.header = Undefined]))

C9_Witness ==
  \E i \in 1..Len(log) :
    /\ log[i].req.header = Str(<<"A", " ">>)
    /\ log[i].callerId = Some(<<"a">>)
    /\ log[i].route = "next"

Normal(h) == ToLowerCase(Trim(h))

\* positions of the log whose wallet header is a string standing for w
SameWallet(w) ==
  {i \in 1..Len(log) : /\ log[i].life = life
                       /\ log[i].req.header.t = "string"
                       /\ Normal(log[i].req.header.v) = w}

\* C11: requests whose wallet headers differ only in letter case or in
\* leading or trailing blanks resolve to one identity and draw on one count:
\* together they are let through free at most FREE_TIER_LIMIT times
C11_VariantsShareQuota ==
  \A i \in 1..Len(log) :
    (log[i].req.header.t = "string" /\ Normal(log[i].req.header.v) # <<>>) =>
      LET w == Normal(log[i].req.header.v)
      IN /\ \A j \in SameWallet(w) : log[j].callerId = log[i].callerId
         /\ Cardinality({j \in SameWallet(w) : log[j].route = "next"})
              <= FREE_TIER_LIMIT
         /\ MapGetOrZero(walletUsage, w) =
              Cardinality({j \in SameWallet(w) : log[j].route = "next"})

\* three spellings of one wallet: the first two are let through, the third
\* is sent to the payment middleware
C11_Witness ==
  \E i, j, k \in 1..Len(log) :
    /\ i < j /\ j < k
    /\ log[i].req.header = Str(<<"a">>)
    /\ log[j].req.header = Str(<<"A">>)
    /\ log[k].req.header = Str(<<" ", "a">>)
    /\ log[i].route = "next" /\ log[j].route = "next"
    /\ log[k].route = "payment"
    /\ walletUsage[<<"a">>] = FREE_TIER_LIMIT

\* C12: a request let through free carries freeTier = true and the number
\* of free calls left, its handler continuation was called by the gate
\* itself, and the payment middleware never gets to see it
C12_GrantBypassesPayment ==
  \A i \in 1..Len(log) :
    /\ log[i].route = "next" =>
         /\ log[i].req.freeTier = Some(TRUE)
         /\ log[i].req.freeTierRemaining # None
         /\ log[i].req.freeTierRemaining[1] \in 0..(FREE_TIER_LIMIT - 1)
         /\ log[i].stage = "handler"
         /\ ~log[i].paid
    /\ log[i].req.freeTier = Some(TRUE) =>
         /\ log[i].route = "next"
         /\ log[i].stage \notin {"payment", "402"}

C12_Witness ==
  \E i, j \in 1..Len(log) :
    /\ log[i].life = life /\ log[j].life = life
    /\ log[i].callerId = log[j].callerId
    /\ log[i].route = "next" /\ log[i].stage = "handler"
    /\ log[i].req.freeTier = Some(TRUE)
    /\ log[i].req.freeTierRemaining = Some(0)
    /\ log[j].route = "payment" /\ log[j].stage = "payment"

\* C13: on a denied call the gate hands the unchanged request to the
\* payment middleware and does nothing else; the handler runs for a request
\* only if the gate let it through free or the payment middleware called
\* the continuation, and never once the middleware answered 402
C13_DeniedGoesToPayment ==
  /\ [][(IsGateStep /\ Gated.route = "payment") =>
          /\ Gated.req \in BagToSet(pending)
          /\ Gated.stage = "payment"
          /\ ~Gated.paid
          /\ walletUsage' = walletUsage
          /\ served' = served]_vars
  /\ [](\A i \in 1..Len(log) :
          /\ i \in DOMAIN served =>
               /\ log[i].stage = "handler"
               /\ (log[i].route = "next" \/ log[i].paid)
          /\ log[i].stage = "handler" => (log[i].route = "next" \/ log[i].paid)
          /\ log[i].stage = "402" =>
               /\ log[i].route = "payment"
               /\ ~log[i].paid
               /\ i \notin DOMAIN served)
  /\ [][\A i \in 1..Len(log) :
          log[i].stage = "402" => log'[i] = log[i]]_vars

C13_Witness ==
  \E i \in 1..Len(log) :
    /\ log[i].route = "payment"
    /\ log[i].stage = "402"
    /\ i \notin DOMAIN served
    /\ \A j \in 1..(i - 1) :
         /\ log[j].route = "next"
         /\ j \in DOMAIN served
         /\ served[j].step = "done"

\* C14: nothing that happens after a grant takes the increment back: the
\* stored counts never go down while the process lives, and the count still
\* covers every grant after the caller disconnected or the handler answered
\* 400, an upstream error status, or 500
C14_NoRollback ==
  /\ [][life' = life =>
          \A id \in DOMAIN walletUsage :
            /\ id \in DOMAIN walletUsage'
            /\ walletUsage'[id] >= walletUsage[id]]_vars
  /\ [](\A i \in 1..Len(log) :
          (log[i].life = life /\ log[i].route = "next") =>
            /\ MapHas(walletUsage, log[i].callerId[1])
            /\ walletUsage[log[i].callerId[1]] =
                 Cardinality(Grants(log[i].callerId[1], life)))

\* a granted request whose caller went away and whose handler ended in 500,
\* with the call still counted
C14_Witness ==
  \E i \in DOMAIN served :
    /\ log[i].route = "next"
    /\ served[i].aborted
    /\ served[i].step = "done"
    /\ served[i].status = Some(500)
    /\ walletUsage[log[i].callerId[1]] = 1

\* was a client identity supplied: a clientAddress string or a wallet header
\* with something other than blanks in it
ClientSupplied(req) ==
  \/ req.body.clientAddress.t = "string" /\ ~IsBlank(req.body.clientAddress.v)
  \/ req.header.t = "string" /\ ~IsBlank(req.header.v)

HasAttestation(run) ==
  run.feedbackAuth # None \/ run.feedbackAuthContract # None

\* C15: a response has an attestation field only if a signer key is
\* configured and a client identity came with the request; without a signer
\* key no response has one, and a delivered result is still answered 200
C15_AttestationNeedsKeyAndClient ==
  \A i \in DOMAIN served :
    /\ HasAttestation(served[i]) =>
         /\ config.key = "valid"
         /\ ClientSupplied(log[i].req)
         /\ served[i].status = Some(200)
    /\ (config.key = "none" /\ served[i].step = "done"
        /\ served[i].result # None /\ served[i].result[1].ok) =>
         /\ ~HasAttestation(served[i])
         /\ served[i].status = Some(200)
         /\ served[i].kind = "result"

C15_Witness ==
  \E i \in DOMAIN served :
    /\ config.key = "none"
    /\ log[i].req.body.clientAddress = Str(ClientAddr)
    /\ served[i].step = "done"
    /\ served[i].status = Some(200)
    /\ ~HasAttestation(served[i])

\* C16: feedbackAuthContract is in a response exactly when feedbackAuth is
\* and a numeric agent id is configured; with a signer key and a client
\* identity but no agent id the response has feedbackAuth and no blob
C16_BlobNeedsAgentId ==
  \A i \in DOMAIN served :
    /\ (served[i].feedbackAuthContract # None) =
         (served[i].feedbackAuth # None /\ config.agentId # None)
    /\ (/\ served[i].step = "done" /\ served[i].status = Some(200)
        /\ config.key = "valid" /\ config.agentId = None
        /\ ClientSupplied(log[i].req)) =>
         /\ served[i].feedbackAuth # None
         /\ DOMAIN served[i].feedbackAuth[1] = {"agentId", "taskId"}
         /\ served[i].feedbackAuth[1].agentId = AgentAddr
         /\ served[i].feedbackAuthContract = None

C16_Witness ==
  \E i \in DOMAIN served :
    /\ config.key = "valid" /\ config.agentId = None
    /\ ClientSupplied(log[i].req)
    /\ served[i].status = Some(200)
    /\ served[i].feedbackAuth # None
    /\ served[i].feedbackAuthContract = None

\* C17 as stated: once the extraction delivered, the response is the 200
\* result, whatever happens while the attestation is built
C17_AttestationNeverFailsRequest ==
  \A i \in DOMAIN served :
    (served[i].step = "done" /\ served[i].result # None
     /\ served[i].result[1].ok) =>
      /\ served[i].status = Some(200)
      /\ served[i].kind = "result"

\* ethers verifyMessage(message, signature): the address that signed
\* message, if signature is the 65 bytes of a signature over it
Recovered(message, signature) ==
  IF /\ Len(signature) = 1
     /\ signature[1].n = 65
     /\ signature[1].first.j = 1
     /\ signature[1].first.src = "sig"
     /\ signature[1].first.val.over = message
  THEN signature[1].first.val.signer
  ELSE <<>>

\* C18: the blob is 289 bytes; its first 224 are the ABI encoding of
\* (agent id, client identity, index limit, expiry, chain id, registry,
\* signer) in this order, and the other 65 are a signature over the hash of
\* these 224 bytes that recovers to the signer's address
C18_BlobLayout ==
  \A i \in DOMAIN served :
    served[i].feedbackAuthContract # None =>
      LET blob == served[i].feedbackAuthContract[1].hex
          tuple == << Decimal(config.agentId[1]),
                      ClientAddress(log[i].req).v,
                      Decimal(1000),
                      Decimal((served[i].now[1] \div 1000) + 3600),
                      Decimal(84532),
                      RegistryAddr,
                      AgentAddr >>
          types == << "uint256", "address", "uint64", "uint256", "uint256",
                      "address", "address" >>
      IN /\ LenBytes(blob) = 289
         /\ TakeBytes(blob, 224) =
              [ k \in 1..7 |->
                  [n |-> 32, first |-> [j |-> 1, src |-> types[k], val |-> tuple[k]]] ]
         /\ LenBytes(DropBytes(blob, 224)) = 65
         /\ Recovered(Keccak256(TakeBytes(blob, 224)), DropBytes(blob, 224))
              = AgentAddr

C18_Witness ==
  \E i \in DOMAIN served :
    /\ config.agentId = Some(AgentIdValue)
    /\ served[i].status = Some(200)
    /\ served[i].feedbackAuthContract # None
    /\ LenBytes(served[i].feedbackAuthContract[1].hex) = 289
    /\ log[i].req.body.clientAddress = Str(<<" ">> \o ClientAddr)

\* handler runs that produced a task reference
Attested == {i \in DOMAIN served : served[i].feedbackAuth # None}

\* C19: the task reference is a function of the url and the timestamp: two
\* deliveries of one url at one timestamp have the same reference, and two
\* deliveries of one url at different timestamps have different ones
C19_TaskIdDeterministic ==
  \A i, j \in Attested :
    BodyUrl(log[i].req.body) = BodyUrl(log[j].req.body) =>
      (served[i].feedbackAuth[1].taskId = served[j].feedbackAuth[1].taskId)
        = (served[i].now = served[j].now)

C19_Witness ==
  \E i, j, k \in Attested :
    /\ i # j /\ j # k /\ i # k
    /\ BodyUrl(log[i].req.body) = BodyUrl(log[j].req.body)
    /\ BodyUrl(log[j].req.body) = BodyUrl(log[k].req.body)
    /\ served[i].now = served[j].now
    /\ served[i].feedbackAuth[1].taskId = served[j].feedbackAuth[1].taskId
    /\ served[i].now # served[k].now
    /\ served[i].feedbackAuth[1].taskId # served[k].feedbackAuth[1].taskId

\* C20 as stated: a feedbackAuth object in a response has agentId, taskId
\* and signature, the three fields the feedback client insists on
C20_FeedbackAuthHasSignature ==
  \A i \in DOMAIN served :
    served[i].feedbackAuth # None =>
      {"agentId", "taskId", "signature"} \subseteq DOMAIN served[i].feedbackAuth[1]

\* handler runs whose extraction failed
Failed == {i \in DOMAIN served : served[i].result # None /\ ~served[i].result[1].ok}

\* C21: a failed extraction is answered with an error carrying the status
\* the upstream reported, or 503 when the failure has none; the response has
\* no attestation field, and a free and a paid request that fail alike get
\* the same answer
C21_UpstreamFailureSurfaced ==
  /\ \A i \in Failed :
       /\ served[i].step = "done"
       /\ served[i].kind = "error"
       /\ served[i].result[1].status # None =>
            served[i].status = served[i].result[1].status
       /\ served[i].result[1].status = None => served[i].status = Some(503)
       /\ ~HasAttestation(served[i])
  /\ \A i, j \in Failed :
       served[i].result = served[j].result =>
         /\ served[i].status = served[j].status
         /\ served[i].kind = served[j].kind

\* a free and a paid request of one wallet both failed upstream with a
\* status, a third failed without one, and a signer was ready to attest
C21_Witness ==
  \E i, j, k \in Failed :
    /\ config.key = "valid"
    /\ ClientSupplied(log[i].req) /\ ClientSupplied(log[j].req)
    /\ log[i].route = "next" /\ ~log[i].paid
    /\ log[j].route = "payment" /\ log[j].paid
    /\ served[i].result[1].status = Some(UpstreamStatus)
    /\ served[j].result[1].status = Some(UpstreamStatus)
    /\ served[i].status = Some(UpstreamStatus)
    /\ served[j].status = Some(UpstreamStatus)
    /\ served[k].result[1].status = None
    /\ served[k].status = Some(503)

\* C22: only the gate, when it lets a request through free, changes the
\* usage map: the payment middleware, the handler, the extraction and the
\* signing of the attestation leave every stored count as it was
C22_OnlyGateMutates ==
  [][walletUsage' # walletUsage =>
       /\ IsGateStep
       /\ Gated.route = "next"
       /\ served' = served
       /\ \A i \in 1..Len(log) : log'[i] = log[i]]_vars

\* a paid request went through the payment middleware, the handler, the
\* extraction and the signing, and the count of its wallet is still the
\* number of its free grants
C22_Witness ==
  \E i \in DOMAIN served :
    /\ log[i].route = "payment" /\ log[i].paid
    /\ served[i].step = "done"
    /\ served[i].status = Some(200)
    /\ served[i].feedbackAuthContract # None
    /\ walletUsage[log[i].callerId[1]] = FREE_TIER_LIMIT
    /\ Cardinality(Grants(log[i].callerId[1], life)) = FREE_TIER_LIMIT

\* C23: a handler run exists only for a request whose identity the gate
\* resolved and which the gate let through or the payment middleware passed
\* on; an attestation is worked on only after that request's extraction
\* delivered; while the signature is awaited nothing was sent; the 200
\* response carries every attestation field that was due; and a sent
\* response is never followed by another stage of the same request
C23_StageOrder ==
  /\ [](\A i \in DOMAIN served :
          /\ i \in 1..Len(log)
          /\ log[i].callerId # None
          /\ log[i].used # None
          /\ log[i].stage = "handler"
          /\ (log[i].route = "next" /\ ~log[i].paid)
               \/ (log[i].route = "payment" /\ log[i].paid)
          /\ (served[i].step = "sign" \/ HasAttestation(served[i])) =>
               /\ served[i].result # None
               /\ served[i].result[1].ok
          /\ served[i].step # "done" =>
               /\ served[i].status = None
               /\ served[i].kind = "none"
               /\ ~HasAttestation(served[i])
          /\ (served[i].step = "done" /\ served[i].status = Some(200)) =>
               /\ served[i].result # None /\ served[i].result[1].ok
               /\ (config.key = "valid" /\ ClientSupplied(log[i].req)) =>
                    /\ served[i].feedbackAuth # None
                    /\ config.agentId # None =>
                         served[i].feedbackAuthContract # None)
  /\ [][\A i \in DOMAIN served :
          /\ i \in DOMAIN served'
          /\ served[i].step = "done" => served'[i] = served[i]
          /\ served[i].step = "sign" => served'[i].step \in {"sign", "done"}
          /\ log'[i] = log[i]]_vars
  /\ [][\A i \in DOMAIN served' \ DOMAIN served :
          /\ i \in 1..Len(log)
          /\ log[i].stage = "handler"
          /\ served'[i].step \in {"extract", "done"}
          /\ served'[i].result = None]_vars

\* a free request was answered with its attestation while a paid request of
\* the same wallet is past the gate, the payment middleware and the
\* extraction, awaiting its signature with nothing sent yet
C23_Witness ==
  \E i, j \in DOMAIN served :
    /\ log[i].callerId = log[j].callerId
    /\ log[i].route = "next"
    /\ served[i].step = "done" /\ served[i].status = Some(200)
    /\ served[i].feedbackAuth # None /\ served[i].feedbackAuthContract # None
    /\ log[j].route = "payment" /\ log[j].paid
    /\ served[j].step = "sign"
    /\ served[j].result # None /\ served[j].status = None

StatedClient(req) ==
  IF req.body.clientAddress.t = "string" /\ ~IsBlank(req.body.clientAddress.v)
  THEN Some(Trim(req.body.clientAddress.v))
  ELSE IF req.header.t = "string" /\ ~IsBlank(req.header.v)
  THEN Some(Trim(req.header.v))
  ELSE None

\* the client identity a blob was made out for: the value of its second word
BlobClient(blob) == TakeBytes(DropBytes(blob.hex, 32), 32)[1].first.val

\* handler runs that answered after a delivered extraction
Delivered ==
  {i \in DOMAIN served : /\ served[i].step = "done"
                         /\ served[i].result # None
                         /\ served[i].result[1].ok}

\* C25: the attestation is made out for the trimmed body field clientAddress
\* when that is a string with something other than blanks in it, else for
\* the trimmed wallet header under the same condition; when neither gives
\* an identity the response has no attestation
C25_ClientIdentityPriority ==
  \A i \in Delivered :
    /\ StatedClient(log[i].req) = None =>
         /\ ~HasAttestation(served[i])
         /\ served[i].status = Some(200)
    /\ served[i].feedbackAuthContract # None =>
         Some(BlobClient(served[i].feedbackAuthContract[1])) = StatedClient(log[i].req)
    /\ (config.key = "valid" /\ StatedClient(log[i].req) # None) =>
         \/ served[i].feedbackAuth # None
         \/ /\ config.agentId # None
            /\ ~IsAddress(StatedClient(log[i].req)[1])
    /\ (/\ config.key = "valid" /\ config.agentId # None
        /\ StatedClient(log[i].req) # None
        /\ IsAddress(StatedClient(log[i].req)[1])) =>
         served[i].feedbackAuthContract # None

\* the body field holds only a blank, so the blob is made out for the
\* wallet header
C25_Witness ==
  \E i \in Delivered :
    /\ log[i].req.body.clientAddress = Str(<<" ">>)
    /\ log[i].req.header = Str(ClientAddr)
    /\ served[i].feedbackAuthContract # None
    /\ BlobClient(served[i].feedbackAuthContract[1]) = ClientAddr

\* the step is the start of one /mcp handler
IsMcpStart == Len(mcpLog') = Len(mcpLog) + 1

Started == mcpLog'[Len(mcpLog')]

\* the request carries a session id
HasSessionId(rq) == rq.sessionId.t = "string" /\ rq.sessionId.v # <<>>

\* C26: a request to /mcp whose session id is not in the session table when
\* its handler runs is answered 400 and handed to no transport, and so is a
\* request without a session id unless it is a POST of an initialize
\* request; a transport is created only for a POST of an initialize
\* request without a session id, and only such a request ever adds a
\* session to the table
C26_UnknownSessionRejected ==
  /\ [][IsMcpStart =>
          /\ \A r \in 1..Len(mcpLog) : mcpLog'[r] = mcpLog[r]
          /\ transports' = transports
          /\ (HasSessionId(Started.rq)
              /\ Started.rq.sessionId.v \notin DOMAIN transports) =>
               /\ Started.step = "done"
               /\ Started.status = Some(400)
               /\ Started.to = None
               /\ made' = made
          /\ (~HasSessionId(Started.rq)
              /\ ~(Started.rq.method = "POST" /\ Started.rq.init)) =>
               /\ Started.step = "done"
               /\ Started.status = Some(400)
               /\ Started.to = None
               /\ made' = made
          /\ made' # made =>
               /\ Started.rq.method = "POST"
               /\ Started.rq.init
               /\ ~HasSessionId(Started.rq)
               /\ Started.to = Some(Len(made'))
          /\ (Started.to # None /\ made' = made) =>
               /\ HasSessionId(Started.rq)
               /\ Started.rq.sessionId.v \in DOMAIN transports
               /\ Started.to = Some(transports[Started.rq.sessionId.v])]_vars
  /\ [][\A sid \in DOMAIN transports' \ DOMAIN transports :
          \E r \in 1..Len(mcpLog) :
            /\ mcpLog[r].rq.method = "POST"
            /\ mcpLog[r].rq.init
            /\ ~HasSessionId(mcpLog[r].rq)
            /\ mcpLog[r].step = "handle"
            /\ mcpLog'[r].step = "done"
            /\ transports'[sid] = mcpLog[r].to[1]]_vars
  /\ [](\A r \in 1..Len(mcpLog) :
          mcpLog[r].to = None =>
            mcpLog[r].step = "done" /\ mcpLog[r].status = Some(400))

\* a session was set up, an initialize request sent under an id the table
\* does not hold was answered 400, and a GET under the session's id was
\* handed to the session's transport
C26_Witness ==
  \E r1, r2, r3 \in 1..Len(mcpLog) :
    /\ r1 < r2 /\ r2 < r3
    /\ mcpLog[r1].rq.method = "POST" /\ mcpLog[r1].rq.init
    /\ mcpLog[r1].rq.sessionId = Undefined
    /\ mcpLog[r1].step = "done" /\ mcpLog[r1].status = Some(200)
    /\ SessionId(1) \in DOMAIN transports
    /\ transports[SessionId(1)] = mcpLog[r1].to[1]
    /\ mcpLog[r2].rq.method = "POST" /\ mcpLog[r2].rq.init
    /\ mcpLog[r2].rq.sessionId = Str(SessionId(2))
    /\ mcpLog[r2].status = Some(400) /\ mcpLog[r2].to = None
    /\ mcpLog[r3].rq.method = "GET"
    /\ mcpLog[r3].rq.sessionId = Str(SessionId(1))
    /\ mcpLog[r3].to = mcpLog[r1].to
    /\ Len(made) = 1

\* transports whose session has the id sid
TransportsOf(sid) == {t \in 1..Len(made) : made[t].sessionId = Some(sid)}

\* C27: every key of the session table maps to an open transport whose own
\* session id is that key, and every open transport with a session is in
\* the table; a key is entered in the step that initializes its transport
\* and removed in the step that closes it; and a request that arrives under
\* the id of a closed transport is answered 400 and handed to no transport
C27_TableMatchesSessions ==
  /\ [](/\ \A sid \in DOMAIN transports :
             /\ transports[sid] \in 1..Len(made)
             /\ made[transports[sid]].sessionId = Some(sid)
             /\ ~made[transports[sid]].closed
        /\ \A t \in 1..Len(made) :
             (made[t].sessionId # None /\ ~made[t].closed) =>
               /\ made[t].sessionId[1] \in DOMAIN transports
               /\ transports[made[t].sessionId[1]] = t)
  /\ [][\A sid \in DOMAIN transports' \ DOMAIN transports :
          /\ made[transports'[sid]].sessionId = None
          /\ made'[transports'[sid]].sessionId = Some(sid)]_vars
  /\ [][\A sid \in DOMAIN transports \ DOMAIN transports' :
          /\ ~made[transports[sid]].closed
          /\ made'[transports[sid]].closed]_vars
  /\ [][(/\ IsMcpStart
         /\ HasSessionId(Started.rq)
         /\ \E t \in TransportsOf(Started.rq.sessionId.v) : made[t].closed) =>
          /\ Started.step = "done"
          /\ Started.status = Some(400)
          /\ Started.to = None]_vars

\* a session was set up and closed by a DELETE, and a POST that came under
\* its id afterwards was answered 400
C27_Witness ==
  \E r1, r2, r3 \in 1..Len(mcpLog) :
    /\ r1 < r2 /\ r2 < r3
    /\ mcpLog[r1].rq.init /\ mcpLog[r1].status = Some(200)
    /\ made[mcpLog[r1].to[1]] = [sessionId |-> Some(SessionId(1)), closed |-> TRUE]
    /\ mcpLog[r2].rq.method = "DELETE"
    /\ mcpLog[r2].rq.sessionId = Str(SessionId(1))
    /\ mcpLog[r2].to = mcpLog[r1].to
    /\ mcpLog[r2].status = Some(200)
    /\ mcpLog[r3].rq.method = "POST"
    /\ mcpLog[r3].rq.sessionId = Str(SessionId(1))
    /\ mcpLog[r3].status = Some(400) /\ mcpLog[r3].to = None
    /\ SessionId(1) \notin DOMAIN transports

\* C28: every stored count is a whole number from 0 to FREE_TIER_LIMIT,
\* whatever number of free, denied and paid calls the identity made and
\* however they interleaved
C28_CountWithinLimit ==
  \A id \in DOMAIN walletUsage :
    /\ walletUsage[id] \in Nat
    /\ 0 <= walletUsage[id]
    /\ walletUsage[id] <= FREE_TIER_LIMIT

\* one identity made two calls beyond its free ones, one paid and one
\* answered 402, and its count stands at the limit
C28_Witness ==
  \E id \in DOMAIN walletUsage :
    /\ walletUsage[id] = FREE_TIER_LIMIT
    /\ Cardinality(Calls(id, life)) >= FREE_TIER_LIMIT + 2
    /\ \E i, j \in Calls(id, life) :
         /\ log[i].route = "payment" /\ log[i].paid
         /\ log[j].route = "payment" /\ log[j].stage = "402"

\* C29: while the process lives, a count at the limit stays at the limit;
\* every gate call of an identity whose count is at the limit is sent to
\* the payment middleware, so after a first denial no call of that identity
\* is let through free; an accepted payment changes no count; and a request
\* carries freeTier = true exactly if the gate let it through free, a paid
\* request carrying no freeTier at all
C29_ExhaustedStaysExhausted ==
  /\ [][life' = life =>
          \A id \in DOMAIN walletUsage :
            walletUsage[id] >= FREE_TIER_LIMIT =>
              /\ id \in DOMAIN walletUsage'
              /\ walletUsage'[id] = walletUsage[id]]_vars
  /\ [][(/\ IsGateStep
         /\ Gated.callerId # None
         /\ MapGetOrZero(walletUsage, Gated.callerId[1]) >= FREE_TIER_LIMIT) =>
          /\ Gated.route = "payment"
          /\ Gated.req.freeTier = None]_vars
  /\ [][\A i \in 1..Len(log) :
          (~log[i].paid /\ log'[i].paid) =>
            /\ walletUsage' = walletUsage
            /\ log'[i].req = log[i].req]_vars
  /\ [](\A i \in 1..Len(log) :
          /\ (log[i].req.freeTier = Some(TRUE)) = (log[i].route = "next")
          /\ log[i].paid =>
               /\ log[i].route = "payment"
               /\ log[i].req.freeTier = None
               /\ log[i].req.freeTierRemaining = None
          /\ \A j \in i..Len(log) :
               (/\ log[i].route = "payment"
                /\ log[j].life = log[i].life
                /\ log[j].callerId = log[i].callerId) =>
                 log[j].route = "payment")

\* an identity past its free calls paid for a call, and its next call was
\* sent to the payment middleware again, its count still at the limit
C29_Witness ==
  \E i, j \in 1..Len(log) :
    /\ i < j
    /\ log[i].life = life /\ log[j].life = life
    /\ log[i].callerId = log[j].callerId
    /\ log[i].route = "payment" /\ log[i].paid /\ log[i].stage = "handler"
    /\ log[i].req.freeTier = None
    /\ log[j].route = "payment" /\ log[j].used = Some(FREE_TIER_LIMIT)
    /\ walletUsage[log[i].callerId[1]] = FREE_TIER_LIMIT

====
